---------------------------- MODULE Spec2Model ----------------------------
(***************************************************************************)
(* Model of the GitLab request executor (scm/driver/gitlab/gitlab.go) and  *)
(* of the webhook codec (scm/webhook.go).                                  *)
(*                                                                         *)
(* Text is modelled as sequences: a header value is a sequence of          *)
(* one-character strings, a response body is a sequence of lexemes, each   *)
(* with its length in bytes, so that byte slicing is computed on lengths.  *)
(* Integers parsed from headers are kept as sign and decimal magnitude, so *)
(* that the 64-bit range of the Go int is modelled exactly.                *)
(***************************************************************************)
EXTENDS Integers, Sequences, FiniteSets, TLC

VARIABLES
    rate,       \* the client's rate snapshot (scm.Client.rate, set by SetRate)
    lastResp,   \* history: the most recent response an exchange produced, or NoResponse
    last,       \* the most recent call of the sequential caller and what it returned
    gor,        \* the two concurrent goroutines running wrapper.do
    wire,       \* webhook codec: the JSON text handed to UnmarshalJSON
    hookIn,     \* webhook codec: the webhook value that was marshalled, or NoHook
    wu,         \* webhook codec: the WebhookUnmarshaler being filled
    hookRet     \* webhook codec: what UnmarshalJSON did (NoHookReturn before the call)

vars == <<rate, lastResp, last, gor, wire, hookIn, wu, hookRet>>

(***************************************************************************)
(* strconv.Atoi / strconv.ParseInt on a header value                       *)
(***************************************************************************)

Digits == {"0", "1", "2", "3", "4", "5", "6", "7", "8", "9"}

DigitOf(ch) ==
    CASE ch = "0" -> 0 [] ch = "1" -> 1 [] ch = "2" -> 2 [] ch = "3" -> 3
      [] ch = "4" -> 4 [] ch = "5" -> 5 [] ch = "6" -> 6 [] ch = "7" -> 7
      [] ch = "8" -> 8 [] ch = "9" -> 9

\* An integer: its sign and its decimal magnitude without leading zeros.
Zero == [neg |-> FALSE, mag |-> <<>>]

\* 1<<63 - 1 and 1<<63, the bounds of int64 (and of int on a 64-bit build).
MaxMag == <<9, 2, 2, 3, 3, 7, 2, 0, 3, 6, 8, 5, 4, 7, 7, 5, 8, 0, 7>>
CutoffMag == <<9, 2, 2, 3, 3, 7, 2, 0, 3, 6, 8, 5, 4, 7, 7, 5, 8, 0, 8>>

RECURSIVE StripZeros(_)
StripZeros(m) ==
    IF m = <<>> THEN <<>>
    ELSE IF Head(m) = 0 THEN StripZeros(Tail(m)) ELSE m

RECURSIVE LexGreater(_, _)
LexGreater(a, b) ==
    IF a = <<>> THEN FALSE
    ELSE IF Head(a) # Head(b) THEN Head(a) > Head(b)
    ELSE LexGreater(Tail(a), Tail(b))

\* a > b for magnitudes without leading zeros
MagGreater(a, b) ==
    \/ Len(a) > Len(b)
    \/ Len(a) = Len(b) /\ LexGreater(a, b)

MagGeq(a, b) == a = b \/ MagGreater(a, b)

\* ParseInt(s, 10, 64): [val, err], err one of "nil", "syntax", "range".
ParseInt(s) ==
    IF s = <<>> THEN [val |-> Zero, err |-> "syntax"]
    ELSE
      LET signed == Head(s) \in {"+", "-"}
          neg    == Head(s) = "-"
          body   == IF signed THEN Tail(s) ELSE s
      IN  IF body = <<>> \/ \E i \in 1..Len(body) : body[i] \notin Digits
          THEN [val |-> Zero, err |-> "syntax"]
          ELSE
            LET un == StripZeros([i \in 1..Len(body) |-> DigitOf(body[i])])
            IN  IF ~neg /\ MagGeq(un, CutoffMag)
                THEN [val |-> [neg |-> FALSE, mag |-> MaxMag], err |-> "range"]
                ELSE IF neg /\ MagGreater(un, CutoffMag)
                THEN [val |-> [neg |-> TRUE, mag |-> CutoffMag], err |-> "range"]
                ELSE [val |-> [neg |-> neg /\ un # <<>>, mag |-> un], err |-> "nil"]

\* strconv.Atoi on a 64-bit build: the fast path and ParseInt agree on the value.
Atoi(s) == ParseInt(s)

(***************************************************************************)
(* The rate triple parsed from a response's headers                        *)
(***************************************************************************)

\* http.Header.Get: the header's value, "" when the header is absent.
HeaderGet(header, key) == header[key]

ParseRate_ResetFromRemaining(header) ==
    [Limit     |-> Atoi(HeaderGet(header, "RateLimit-Limit")).val,
     Remaining |-> Atoi(HeaderGet(header, "RateLimit-Remaining")).val,
     Reset     |-> ParseInt(HeaderGet(header, "RateLimit-Remaining")).val]

\* res.Rate as filled in from the three RateLimit headers; the error each
\* parse returns is dropped and the value it returns is kept.
ParseRate(header) ==
    [Limit     |-> Atoi(HeaderGet(header, "RateLimit-Limit")).val,
     Remaining |-> Atoi(HeaderGet(header, "RateLimit-Remaining")).val,
     Reset     |-> ParseInt(HeaderGet(header, "RateLimit-Reset")).val]

\* The zero value of scm.Rate, the snapshot of a client that made no exchange.
ZeroRate == [Limit |-> Zero, Remaining |-> Zero, Reset |-> Zero]

\* scm.Client.SetRate: the snapshot is replaced by r as one write.
SetRate(cur, r) == r

(***************************************************************************)
(* Response bodies and encoding/json                                       *)
(***************************************************************************)

Lex(s, n) == [s |-> s, n |-> n]

LBracket == Lex("[", 1)
RBracket == Lex("]", 1)
Comma    == Lex(",", 1)
Junk     == Lex("x", 1)
NullLit  == Lex("null", 4)
EmptyObj == Lex("{}", 2)
MsgObj   == Lex("{\"message\":\"not found\"}", 23)
NsObj    == Lex("{\"id\":1,\"name\":\"acme\"}", 22)
NsObj2   == Lex("{\"id\":2,\"name\":\"beta\"}", 22)
\* what is left of a lexeme of several bytes once bytes are cut off it
Frag(n)  == Lex("frag", n)

RECURSIVE ByteLen(_)
ByteLen(b) == IF b = <<>> THEN 0 ELSE Head(b).n + ByteLen(Tail(b))

Absent == "absent"

\* The members of an object lexeme that the decode targets read.
ObjFields(l) ==
    CASE l = MsgObj -> [message |-> "not found", id |-> Absent, name |-> Absent]
      [] l = NsObj  -> [message |-> Absent, id |-> "1", name |-> "acme"]
      [] l = NsObj2 -> [message |-> Absent, id |-> "2", name |-> "beta"]
      [] OTHER      -> [message |-> Absent, id |-> Absent, name |-> Absent]

IsObjLex(l) == l \in {EmptyObj, MsgObj, NsObj, NsObj2}
IsAtomLex(l) == l = NullLit \/ IsObjLex(l)

\* elements of an array: atoms separated by commas
RECURSIVE IsElements(_)
IsElements(b) ==
    \/ Len(b) = 1 /\ IsAtomLex(b[1])
    \/ Len(b) >= 3 /\ IsAtomLex(b[1]) /\ b[2] = Comma /\ IsElements(SubSeq(b, 3, Len(b)))

\* Whether b is exactly one JSON value (json.Valid), and which kind.
JSONKind(b) ==
    IF Len(b) = 1 /\ b[1] = NullLit THEN "null"
    ELSE IF Len(b) = 1 /\ IsObjLex(b[1]) THEN "object"
    ELSE IF Len(b) >= 2 /\ b[1] = LBracket /\ b[Len(b)] = RBracket
            /\ (Len(b) = 2 \/ IsElements(SubSeq(b, 2, Len(b) - 1)))
    THEN "array"
    ELSE "invalid"

\* json.Decoder.Decode reads the first value of the stream and leaves the rest.
FirstValue(b) ==
    IF \E k \in 1..Len(b) : JSONKind(SubSeq(b, 1, k)) # "invalid"
    THEN SubSeq(b, 1, CHOOSE k \in 1..Len(b) :
                        /\ JSONKind(SubSeq(b, 1, k)) # "invalid"
                        /\ \A j \in 1..(k - 1) : JSONKind(SubSeq(b, 1, j)) = "invalid")
    ELSE b

\* s[1:] and s[:len(s)-1] on bytes
DropFirstByte(b) ==
    IF Head(b).n = 1 THEN Tail(b) ELSE <<Frag(Head(b).n - 1)>> \o Tail(b)

DropLastByte(b) ==
    LET l == b[Len(b)]
    IN  IF l.n = 1 THEN SubSeq(b, 1, Len(b) - 1)
        ELSE SubSeq(b, 1, Len(b) - 1) \o <<Frag(l.n - 1)>>

\* buf.String()[1:len(str_buf)-1]: a slice with low > high, or high < 0,
\* panics (slice bounds out of range).
StripBrackets(b) ==
    IF 1 > ByteLen(b) - 1 THEN [panic |-> TRUE, text |-> <<>>]
    ELSE [panic |-> FALSE, text |-> DropLastByte(DropFirstByte(b))]

(***************************************************************************)
(* Decoding into the caller's values                                       *)
(***************************************************************************)

\* A *Error: nil, or pointing at an Error with its Message.
NilError  == [isNil |-> TRUE, Message |-> ""]
NewError  == [isNil |-> FALSE, Message |-> ""]

\* Decoding text into the struct e points at (target given as *Error):
\* an object sets the members present; null leaves a struct as it is;
\* anything else is a decode error and e is left as it was.
DecodeIntoError(e, text) ==
    IF JSONKind(text) = "object" /\ ObjFields(text[1]).message # Absent
    THEN [e EXCEPT !.Message = ObjFields(text[1]).message]
    ELSE e

\* json.Unmarshal(text, &err_i), err_i a *Error: the target is the pointer,
\* which the literal null sets to nil.
UnmarshalIntoErrorPtr(e, text) ==
    IF JSONKind(text) = "null" THEN NilError ELSE DecodeIntoError(e, text)

\* (*Error).Error(): reads e.Message, a nil dereference when e is nil.
ErrorString(e) == IF e.isNil THEN [panic |-> TRUE, s |-> ""] ELSE [panic |-> FALSE, s |-> e.Message]

\* The caller's out: a pointer to a struct with ID and Name (gl_namespace),
\* or, for findNamespaceByName, a pointer to such a pointer.
NewNamespace == [isNil |-> FALSE, ID |-> "0", Name |-> ""]
NilNamespace == [isNil |-> TRUE, ID |-> "0", Name |-> ""]

\* json.Unmarshal(text, &out): [err, val], err one of "nil", "syntax", "type".
UnmarshalIntoOut(kind, val, text) ==
    LET k == JSONKind(text)
    IN  CASE k = "invalid" -> [err |-> "syntax", val |-> val]
          [] k = "array"   -> [err |-> "type", val |-> val]
          [] k = "null"    -> [err |-> "nil",
                               val |-> IF kind = "ptrptr" THEN NilNamespace ELSE val]
          [] k = "object"  ->
               LET f == ObjFields(text[1])
               IN  [err |-> "nil",
                    val |-> [isNil |-> FALSE,
                             ID    |-> IF f.id # Absent THEN f.id ELSE val.ID,
                             Name  |-> IF f.name # Absent THEN f.name ELSE val.Name]]

(***************************************************************************)
(* One HTTP exchange, as scm.Client.Do hands it back                       *)
(***************************************************************************)

HeaderKeys == {"X-Request-Id", "RateLimit-Limit", "RateLimit-Remaining", "RateLimit-Reset"}

\* Client.Do returned an error: there is no response.
TransportFailure ==
    [fail |-> TRUE, Status |-> 0, Header |-> [k \in HeaderKeys |-> <<>>], Body |-> <<>>]

Response(status, header, body) ==
    [fail |-> FALSE, Status |-> status, Header |-> header, Body |-> body]

\* the literal 300 of "res.Status > 300"
ErrorStatusFloor == 300

NoEnvelope == [isNil |-> TRUE, Status |-> 0, ID |-> <<>>, Rate |-> ZeroRate]

\* *scm.Response after the header extraction
Envelope(ex) ==
    [isNil  |-> FALSE,
     Status |-> ex.Status,
     ID     |-> HeaderGet(ex.Header, "X-Request-Id"),
     Rate   |-> ParseRate(ex.Header)]

\* The error a call returns: kind is "nil", "transport" (from Client.Do),
\* "Error" (a *Error, in e), "syntax" or "type" (from encoding/json).
Err(kind, e) == [kind |-> kind, e |-> e]
NoErr == Err("nil", NilError)

\* scm.Request as built from method, path and in
Request(method, path, hasIn) ==
    [Method      |-> method,
     Path        |-> path,
     ContentType |-> IF hasIn THEN "application/json" ELSE "",
     HasBody     |-> hasIn]

\* What a call left behind: the returned envelope and error, the caller's
\* out, whether the call panicked instead of returning, the snapshot after
\* the call, the exit it took, and how often res.Body.Close() ran.
Return(res, err, out, panic, newRate, exit, closes) ==
    [res |-> res, err |-> err, out |-> out, panic |-> panic,
     rate |-> newRate, exit |-> exit, closes |-> closes]

BodyCloses_AtEndOnly(exit) == IF exit \in {"decode"} THEN 1 ELSE 0

\* defer res.Body.Close(), registered once Client.Do returned no error: it
\* runs at every exit after that point, a panic included.
BodyCloses(exit) == IF exit = "transport" THEN 0 ELSE 1

\* res.Status > 300
IsErrorStatus(status) == status > ErrorStatusFloor

\* wrapper.do when Client.Do returned an error
DoTransportError(cur, outVal) ==
    Return(NoEnvelope, Err("transport", NilError), outVal, FALSE, cur,
           "transport", BodyCloses("transport"))

\* wrapper.do after the snapshot: the branch on the status and the decode
DoTail(res, ex, outKind, outVal, newRate) ==
    IF IsErrorStatus(res.Status)
    THEN Return(res, Err("Error", UnmarshalIntoErrorPtr(NewError, ex.Body)),
                outVal, FALSE, newRate, "status", BodyCloses("status"))
    ELSE IF outKind = "none"
    THEN Return(res, NoErr, outVal, FALSE, newRate, "noout", BodyCloses("noout"))
    ELSE
      LET u == UnmarshalIntoOut(outKind, outVal, ex.Body)
      IN  Return(res, Err(u.err, NilError), u.val, FALSE, newRate,
                 "decode", BodyCloses("decode"))

\* wrapper.do, from Client.Do's return on.
DoResult(cur, ex, outKind, outVal) ==
    IF ex.fail
    THEN DoTransportError(cur, outVal)
    ELSE
      LET res == Envelope(ex)
      IN  DoTail(res, ex, outKind, outVal, SetRate(cur, res.Rate))

\* wrapper.do_gl_namespace, from Client.Do's return on.
DoGlNamespaceResult(cur, ex, outKind, outVal) ==
    IF ex.fail
    THEN Return(NoEnvelope, Err("transport", NilError), outVal, FALSE, cur,
                "transport", BodyCloses("transport"))
    ELSE
      LET res     == Envelope(ex)
          newRate == SetRate(cur, res.Rate)
      IN  IF IsErrorStatus(res.Status)
          THEN Return(res, Err("Error", DecodeIntoError(NewError, FirstValue(ex.Body))),
                      outVal, FALSE, newRate, "status", BodyCloses("status"))
          ELSE IF outKind = "none"
          THEN Return(res, NoErr, outVal, FALSE, newRate, "noout", BodyCloses("noout"))
          ELSE
            LET new_str == StripBrackets(ex.Body)
            IN  IF new_str.panic
                THEN Return(NoEnvelope, NoErr, outVal, TRUE, newRate,
                            "panic", BodyCloses("panic"))
                ELSE
                  LET u == UnmarshalIntoOut(outKind, outVal, new_str.text)
                  IN  Return(res, Err(u.err, NilError), u.val, FALSE, newRate,
                             "decode", BodyCloses("decode"))

\* url.QueryEscape on the characters the names use: a space becomes "+".
QueryEscape(name) == [i \in 1..Len(name) |-> IF name[i] = " " THEN "+" ELSE name[i]]

\* fmt.Sprintf("api/v4/namespaces?%s", in.Encode()) with in = {search: name}
NamespacePath(name) == <<"api/v4/namespaces?", "search", "=">> \o QueryEscape(name)

\* findNamespaceByName: out := new(gl_namespace); c.do(ctx, "GET", path, nil, &out)
FindNamespaceCall(cur, ex) == DoResult(cur, ex, "ptrptr", NewNamespace)

(***************************************************************************)
(* The inputs: what the server answers and what the caller asks            *)
(***************************************************************************)

Nines20 == [i \in 1..20 |-> "9"]

LimitValues     == {<<>>, <<"6", "0", "0">>, <<"a", "b", "c">>, Nines20}
RemainingValues == {<<>>, <<"5", "9", "9">>, <<"+", "7">>}
ResetValues     == {<<>>, <<"1", "7", "0", "0", "0", "0", "0", "0", "0", "0">>,
                    <<"-">> \o Nines20}

Header(id, limit, remaining, reset) ==
    [k \in HeaderKeys |->
        CASE k = "X-Request-Id"        -> id
          [] k = "RateLimit-Limit"     -> limit
          [] k = "RateLimit-Remaining" -> remaining
          [] k = "RateLimit-Reset"     -> reset]

RequestId == <<"r", "1">>

AllHeaders ==
    {Header(RequestId, l, rm, rs) :
        l \in LimitValues, rm \in RemainingValues, rs \in ResetValues}

FullRateHeader == Header(RequestId, <<"6", "0", "0">>, <<"5", "9", "9">>,
                         <<"1", "7", "0", "0", "0", "0", "0", "0", "0", "0">>)

Statuses == {200, 300, 301, 404}

Bodies ==
    {<<>>, <<Junk>>, <<NullLit>>, <<EmptyObj>>, <<MsgObj>>, <<NsObj>>,
     <<MsgObj, Junk>>,
     <<LBracket, RBracket>>, <<LBracket, NsObj, RBracket>>,
     <<LBracket, NsObj, Comma, NsObj2, RBracket>>}

\* Exchanges that vary the status and the body, and exchanges that vary the
\* rate headers.
Exchanges ==
    {TransportFailure}
    \cup {Response(s, h, b) : s \in Statuses, h \in {FullRateHeader}, b \in Bodies}
    \cup {Response(s, h, <<MsgObj>>) : s \in {200, 404}, h \in AllHeaders}

Names == {<<"a", "c", "m", "e">>, <<"a", " ", "b">>}

GenericPath == <<"api/v4/projects">>

(***************************************************************************)
(* The sequential caller: one call of the wrapper at a time                *)
(***************************************************************************)

Call(fn, req, ex, outKind, ret) ==
    [fn |-> fn, req |-> req, ex |-> ex, outKind |-> outKind, ret |-> ret]

NoCall ==
    Call("none", Request("", <<>>, FALSE), TransportFailure, "none",
         Return(NoEnvelope, NoErr, NewNamespace, FALSE, ZeroRate, "none", 0))

\* history: the response of the exchange, when it produced one
Observe(ex) == IF ex.fail THEN lastResp ELSE ex

\* c.do(ctx, method, path, in, out)
CallDo(ex, outKind, hasIn) ==
    LET req == Request(IF hasIn THEN "POST" ELSE "GET", GenericPath, hasIn)
        ret == DoResult(rate, ex, outKind, NewNamespace)
    IN  /\ last' = Call("do", req, ex, outKind, ret)
        /\ rate' = ret.rate
        /\ lastResp' = Observe(ex)
        /\ UNCHANGED <<gor, wire, hookIn, wu, hookRet>>

\* c.do_gl_namespace(ctx, method, path, in, out)
CallDoGlNamespace(ex, outKind, hasIn) ==
    LET req == Request(IF hasIn THEN "POST" ELSE "GET", GenericPath, hasIn)
        ret == DoGlNamespaceResult(rate, ex, outKind, NewNamespace)
    IN  /\ last' = Call("do_gl_namespace", req, ex, outKind, ret)
        /\ rate' = ret.rate
        /\ lastResp' = Observe(ex)
        /\ UNCHANGED <<gor, wire, hookIn, wu, hookRet>>

\* c.findNamespaceByName(ctx, name)
CallFindNamespaceByName(name, ex) ==
    LET req == Request("GET", NamespacePath(name), FALSE)
        ret == FindNamespaceCall(rate, ex)
    IN  /\ last' = Call("findNamespaceByName", req, ex, "ptrptr", ret)
        /\ rate' = ret.rate
        /\ lastResp' = Observe(ex)
        /\ UNCHANGED <<gor, wire, hookIn, wu, hookRet>>

(***************************************************************************)
(* The webhook codec (scm/webhook.go)                                      *)
(***************************************************************************)

\* JSON text as encoding/json sees it: an object with its members, or text
\* of another kind ("array", "null", "invalid"); "none" before any text.
JSONText(kind, members) == [kind |-> kind, members |-> members]
NoMembers == [k \in {} |-> <<>>]
NoWire == JSONText("none", NoMembers)

\* A webhook value: its concrete type and its fields, each the zero value
\* of its type or a set value.
Hook(variant, fields) == [variant |-> variant, fields |-> fields]
NoHook == Hook("none", NoMembers)

\* The zero WebhookUnmarshaler
EmptyWU == [Type |-> "", Webhook |-> NoHook]

Variants ==
    {"PushHook", "BranchHook", "DeployHook", "TagHook", "IssueHook",
     "IssueCommentHook", "PullRequestHook", "PullRequestCommentHook",
     "ReviewCommentHook"}

\* The fields of each struct, in the order of the type declarations.
FieldsOf(variant) ==
    CASE variant = "PushHook" ->
           <<"Ref", "BaseRef", "Repo", "Before", "After", "Created", "Deleted",
             "Forced", "Compare", "Commits", "Commit", "Sender", "GUID">>
      [] variant = "BranchHook" -> <<"Ref", "Repo", "Action", "Sender">>
      [] variant = "TagHook" -> <<"Ref", "Repo", "Action", "Sender">>
      [] variant = "IssueHook" -> <<"Action", "Repo", "Issue", "Sender">>
      [] variant = "IssueCommentHook" ->
           <<"Action", "Repo", "Issue", "Comment", "Sender">>
      [] variant = "PullRequestHook" ->
           <<"Action", "Repo", "Label", "PullRequest", "Sender", "Changes", "GUID">>
      [] variant = "PullRequestCommentHook" ->
           <<"Action", "Repo", "PullRequest", "Comment", "Sender">>
      [] variant = "ReviewCommentHook" ->
           <<"Action", "Repo", "PullRequest", "Review">>
      [] variant = "DeployHook" ->
           <<"Data", "Desc", "Ref", "Repo", "Sender", "Target", "TargetURL", "Task">>

FieldSet(variant) == {FieldsOf(variant)[i] : i \in 1..Len(FieldsOf(variant))}

\* hook["type"] = ... : the literal each MarshalJSON writes
TypeLiteral(variant) ==
    CASE variant = "PushHook" -> "pushHook"
      [] variant = "BranchHook" -> "branchHook"
      [] variant = "DeployHook" -> "deployHook"
      [] variant = "TagHook" -> "tagHook"
      [] variant = "IssueHook" -> "issueHook"
      [] variant = "IssueCommentHook" -> "issueCommentHook"
      [] variant = "PullRequestHook" -> "pullRequestHook"
      [] variant = "PullRequestCommentHook" -> "pullRequestCommentHook"
      [] variant = "ReviewCommentHook" -> "reviewCommentHook"

\* hook[key] = h.Field : the key each field is written under
KeyOf(field) ==
    CASE field = "Ref" -> "ref"
      [] field = "BaseRef" -> "baseRef"
      [] field = "Repo" -> "repo"
      [] field = "Before" -> "before"
      [] field = "After" -> "after"
      [] field = "Created" -> "created"
      [] field = "Deleted" -> "deleted"
      [] field = "Forced" -> "forced"
      [] field = "Compare" -> "compare"
      [] field = "Commits" -> "commits"
      [] field = "Commit" -> "commit"
      [] field = "Sender" -> "sender"
      [] field = "GUID" -> "guid"
      [] field = "Action" -> "action"
      [] field = "Issue" -> "issue"
      [] field = "Comment" -> "comment"
      [] field = "Label" -> "label"
      [] field = "PullRequest" -> "pullRequest"
      [] field = "Changes" -> "changes"
      [] field = "Review" -> "review"
      [] field = "Data" -> "data"
      [] field = "Desc" -> "desc"
      [] field = "Target" -> "target"
      [] field = "TargetURL" -> "targetUrl"
      [] field = "Task" -> "task"

\* A member's value: a JSON string, or the encoding of a field's value.
JSONString(str) == <<"string", str>>
JSONOf(value) == <<"value", value>>

\* MarshalJSON: json.Marshal of the map with "type" and one key per field.
MarshalJSON(h) ==
    JSONText("object",
        [k \in {"type"} \cup {KeyOf(f) : f \in FieldSet(h.variant)} |->
            IF k = "type" THEN JSONString(TypeLiteral(h.variant))
            ELSE JSONOf(h.fields[CHOOSE f \in FieldSet(h.variant) : KeyOf(f) = k])])

\* var rawMessage *json.RawMessage : declared and never assigned
NilRawMessage == JSONText("nil", NoMembers)
RawMessage(objMap) == NilRawMessage

\* json.Unmarshal(b, &objMap), objMap a map[string]*json.RawMessage
ParsesAsObjMap(b) == b.kind \in {"object", "null"}

\* json.Unmarshal(*rawMessage, &webhookMap), webhookMap a map[string]string
ParsesAsStringMap(raw) ==
    /\ raw.kind \in {"object", "null"}
    /\ \A k \in DOMAIN raw.members : raw.members[k][1] = "string"

TypeOf(raw) ==
    IF "type" \in DOMAIN raw.members THEN raw.members["type"][2] ELSE ""

\* The type of the (nil) pointer h that each branch of the chain declares,
\* "none" when no branch matches.
BranchTarget(type) ==
    CASE type = "pushHook" -> "PushHook"
      [] type = "branchHook" -> "BranchHook"
      [] type = "deployHook" -> "DeployHook"
      [] type = "tagHook" -> "TagHook"
      [] type = "issueHook" -> "IssueHook"
      [] type = "issueCommentHook" -> "IssueHook"
      [] type = "pullRequestHook" -> "IssueHook"
      [] type = "pullRequestCommentHook" -> "IssueHook"
      [] type = "reviewCommentHook" -> "IssueHook"
      [] OTHER -> "none"

\* What UnmarshalJSON did: outcome "ok" (returned nil), "error" (returned
\* err) or "panic", and the WebhookUnmarshaler afterwards.
HookReturn(outcome, err, w) == [outcome |-> outcome, err |-> err, wu |-> w]

\* (*WebhookUnmarshaler).UnmarshalJSON(b)
UnmarshalJSON(w, b) ==
    IF ~ParsesAsObjMap(b)
    THEN HookReturn("error", "json", w)
    ELSE
      LET rawMessage == RawMessage(b)
      IN  IF rawMessage = NilRawMessage
          THEN HookReturn("panic", "nil pointer dereference", w)
          ELSE IF ~ParsesAsStringMap(rawMessage)
          THEN HookReturn("error", "json", w)
          ELSE IF BranchTarget(TypeOf(rawMessage)) # "none"
          THEN \* var h *T; json.Unmarshal(*rawMessage, h) with h nil
               HookReturn("error", "json: Unmarshal(nil)", w)
          ELSE HookReturn("ok", "", w)

\* Field assignments: every field zero, every field set, one field set.
HookValues ==
    UNION {
        {Hook(v, [f \in FieldSet(v) |-> "zero"]),
         Hook(v, [f \in FieldSet(v) |-> "set"])}
        \cup {Hook(v, [f \in FieldSet(v) |-> IF f = g THEN "set" ELSE "zero"]) :
                g \in FieldSet(v)}
        : v \in Variants}

\* Text that did not come from MarshalJSON.
ForeignTexts ==
    {JSONText("invalid", NoMembers),
     JSONText("array", NoMembers),
     JSONText("null", NoMembers),
     JSONText("object", NoMembers),
     JSONText("object", [k \in {"type"} |-> JSONString("bogus")]),
     JSONText("object", [k \in {"type", "ref"} |->
                            IF k = "type" THEN JSONString("bogus") ELSE JSONString("main")]),
     JSONText("object", [k \in {"ref"} |-> JSONString("main")])}
    \cup {JSONText("object", [k \in {"type"} |-> JSONString(TypeLiteral(v))]) : v \in Variants}

NoHookReturn == [outcome |-> "none", err |-> ""]

UnchangedExecutor == UNCHANGED <<rate, lastResp, last, gor>>

\* h.MarshalJSON() of a webhook value, the text kept for a later decode
Marshal(h) ==
    /\ wire' = MarshalJSON(h)
    /\ hookIn' = h
    /\ wu' = EmptyWU
    /\ hookRet' = NoHookReturn
    /\ UnchangedExecutor

\* text that arrives from elsewhere
Receive(text) ==
    /\ wire' = text
    /\ hookIn' = NoHook
    /\ wu' = EmptyWU
    /\ hookRet' = NoHookReturn
    /\ UnchangedExecutor

\* wu.UnmarshalJSON(wire) on a zero WebhookUnmarshaler
Unmarshal ==
    /\ wire # NoWire
    /\ hookRet = NoHookReturn
    /\ LET r == UnmarshalJSON(wu, wire)
       IN  /\ wu' = r.wu
           /\ hookRet' = [outcome |-> r.outcome, err |-> r.err]
    /\ UNCHANGED <<wire, hookIn>>
    /\ UnchangedExecutor

NextHook ==
    \/ \E h \in HookValues : Marshal(h)
    \/ \E text \in ForeignTexts : Receive(text)
    \/ Unmarshal

(***************************************************************************)
(* Concurrent callers: goroutines running wrapper.do on the same client    *)
(***************************************************************************)

NumGoroutines == 2

Goroutines == 1..NumGoroutines

NoGoroutines == <<>>

Idle ==
    [pc |-> "start", ex |-> TransportFailure, res |-> NoEnvelope,
     ret |-> Return(NoEnvelope, NoErr, NewNamespace, FALSE, ZeroRate, "none", 0)]

ConcExchanges ==
    {TransportFailure}
    \cup {Response(s, h, <<MsgObj>>) :
            s \in {200, 404},
            h \in {FullRateHeader,
                   Header(RequestId, Nines20, <<"+", "7">>, <<>>),
                   Header(RequestId, <<"a", "b", "c">>, <<"5", "9", "9">>, <<>>)}}

UnchangedSequential == UNCHANGED <<lastResp, last, wire, hookIn, wu, hookRet>>

\* res, err := c.Client.Do(ctx, req); on an error the call returns at once
GoClientDo(p, ex) ==
    /\ gor[p].pc = "start"
    /\ gor' = [gor EXCEPT ![p] =
                 IF ex.fail
                 THEN [@ EXCEPT !.pc = "done", !.ex = ex,
                                !.ret = DoTransportError(rate, NewNamespace)]
                 ELSE [@ EXCEPT !.pc = "parse", !.ex = ex]]
    /\ UNCHANGED rate
    /\ UnchangedSequential

\* the request id and the rate triple are parsed into the call's own res
GoParseHeaders(p) ==
    /\ gor[p].pc = "parse"
    /\ gor' = [gor EXCEPT ![p].pc = "setrate", ![p].res = Envelope(gor[p].ex)]
    /\ UNCHANGED rate
    /\ UnchangedSequential

SnapshotArg_LimitOnly(p) == [rate EXCEPT !.Limit = gor[p].res.Rate.Limit]

\* the argument of c.Client.SetRate(res.Rate)
SnapshotArg(p) == gor[p].res.Rate

\* c.Client.SetRate(res.Rate)
GoSetRate(p) ==
    /\ gor[p].pc = "setrate"
    /\ rate' = SetRate(rate, SnapshotArg(p))
    /\ gor' = [gor EXCEPT ![p].pc = "respond"]
    /\ UnchangedSequential

\* the branch on the status, the decode, the deferred Close, the return
GoRespond(p) ==
    /\ gor[p].pc = "respond"
    /\ gor' = [gor EXCEPT ![p].pc = "done",
                          ![p].ret = DoTail(gor[p].res, gor[p].ex, "none",
                                            NewNamespace, rate)]
    /\ UNCHANGED rate
    /\ UnchangedSequential

InitConc ==
    /\ rate = ZeroRate
    /\ lastResp = TransportFailure
    /\ last = NoCall
    /\ gor = [p \in Goroutines |-> Idle]
    /\ wire = NoWire
    /\ hookIn = NoHook
    /\ wu = EmptyWU
    /\ hookRet = NoHookReturn

NextConc ==
    \E p \in Goroutines :
        \/ \E ex \in ConcExchanges : GoClientDo(p, ex)
        \/ GoParseHeaders(p)
        \/ GoSetRate(p)
        \/ GoRespond(p)

SpecConc == InitConc /\ [][NextConc]_vars


Init ==
    /\ rate = ZeroRate
    /\ lastResp = TransportFailure
    /\ last = NoCall
    /\ gor = NoGoroutines
    /\ wire = NoWire
    /\ hookIn = NoHook
    /\ wu = EmptyWU
    /\ hookRet = NoHookReturn

Next ==
    \/ \E ex \in Exchanges, outKind \in {"none", "ptr"}, hasIn \in BOOLEAN :
          CallDo(ex, outKind, hasIn)
    \/ \E ex \in Exchanges, outKind \in {"none", "ptr"} :
          CallDoGlNamespace(ex, outKind, FALSE)
    \/ \E name \in Names, ex \in Exchanges : CallFindNamespaceByName(name, ex)

Spec == Init /\ [][Next]_vars

SpecHook == Init /\ [][NextHook]_vars

(***************************************************************************)
(* Properties of the request executor (specification Spec)                 *)
(***************************************************************************)

ViaDo == last.fn \in {"do", "findNamespaceByName"}
Responded == last.fn # "none" /\ ~last.ex.fail

\* The message member of a body that is a JSON object carrying one.
MessageField(body) == IF body = <<MsgObj>> THEN "not found" ELSE Absent

\* C4: every exchange that completed with a status of 300 or more (300
\* itself included) makes do and do_gl_namespace return the envelope with
\* that status and a non-nil error whose message is the body's message
\* member, and the caller's out is not decoded into.
C4_ErrorStatusReturnsMessage ==
    (/\ last.fn \in {"do", "do_gl_namespace"}
     /\ Responded
     /\ last.ex.Status >= 300)
    => /\ ~last.ret.panic
       /\ ~last.ret.res.isNil
       /\ last.ret.res.Status = last.ex.Status
       /\ last.ret.err.kind = "Error"
       /\ MessageField(last.ex.Body) # Absent
            => last.ret.err.e = [isNil |-> FALSE, Message |-> MessageField(last.ex.Body)]
       /\ last.ret.exit # "decode"
       /\ last.ret.out = NewNamespace

\* C5: on the error-status path of do, whatever the body (empty, not JSON,
\* JSON without a message, null, another shape), the error returned can be
\* asked for its text without a crash, the text is empty or the message,
\* and the envelope keeps the status.
C5_ErrorAlwaysUsable ==
    (ViaDo /\ last.ret.exit = "status")
    => /\ ~ErrorString(last.ret.err.e).panic
       /\ ErrorString(last.ret.err.e).s \in {"", MessageField(last.ex.Body)}
       /\ ~last.ret.res.isNil
       /\ last.ret.res.Status = last.ex.Status

Num(mag) == [neg |-> FALSE, mag |-> mag]
Neg(mag) == [neg |-> TRUE, mag |-> mag]

\* What the claim expects of each header value of the model: the number
\* written, and 0 for a header that is missing or does not parse.
ClaimedValue(v) ==
    CASE v = <<"6", "0", "0">> -> Num(<<6, 0, 0>>)
      [] v = <<"5", "9", "9">> -> Num(<<5, 9, 9>>)
      [] v = <<"+", "7">>      -> Num(<<7>>)
      [] v = <<"1", "7", "0", "0", "0", "0", "0", "0", "0", "0">>
                               -> Num(<<1, 7, 0, 0, 0, 0, 0, 0, 0, 0>>)
      [] OTHER                 -> Zero

\* The same, except that a decimal numeral outside the 64-bit range gives
\* the nearest bound of the range: 9223372036854775807 or -9223372036854775808.
SaturatedValue(v) ==
    CASE v = Nines20            -> Num(MaxMag)
      [] v = <<"-">> \o Nines20 -> Neg(CutoffMag)
      [] OTHER                  -> ClaimedValue(v)

C7_ShortBodyFailsCleanly ==
    (/\ last.fn = "do_gl_namespace"
     /\ Responded
     /\ last.ex.Status < 300
     /\ last.outKind # "none"
     /\ ByteLen(last.ex.Body) < 2)
    => /\ ~last.ret.panic
       /\ ~last.ret.res.isNil
       /\ last.ret.err.kind \in {"syntax", "type"}

\* C8: findNamespaceByName(name) sends GET api/v4/namespaces?search=<name>
\* and unwraps the array of the answer: a 200 with [{"id":1,"name":"acme"}]
\* gives the namespace with ID 1 and Name "acme" and no error.
C8_NamespaceLookupUnwrapsArray ==
    last.fn = "findNamespaceByName"
    => /\ last.req.Method = "GET"
       /\ last.req.Path \in {<<"api/v4/namespaces?", "search", "=", "a", "c", "m", "e">>,
                             <<"api/v4/namespaces?", "search", "=", "a", "+", "b">>}
       /\ (/\ ~last.ex.fail
           /\ last.ex.Status = 200
           /\ last.ex.Body = <<LBracket, NsObj, RBracket>>)
          => /\ last.ret.err.kind = "nil"
             /\ last.ret.out = [isNil |-> FALSE, ID |-> "1", Name |-> "acme"]

\* C10: a call of do or do_gl_namespace whose exchange produced a response
\* has closed the response body exactly once when it is over, whichever exit
\* it took; one whose exchange failed in the transport returns no envelope
\* and closes nothing.
C10_BodyClosedExactlyOnce ==
    last.fn # "none"
    => IF last.ex.fail
       THEN last.ret.closes = 0 /\ last.ret.res.isNil /\ last.ret.err.kind = "transport"
       ELSE last.ret.closes = 1

\* A decode that failed, after which the body is closed.
C10_Witness ==
    /\ last.fn = "do_gl_namespace"
    /\ last.ret.exit = "decode"
    /\ last.ret.err.kind = "syntax"
    /\ last.ret.closes = 1

(***************************************************************************)
(* Properties of concurrent calls (specification SpecConc)                 *)
(***************************************************************************)

AllReturned == \A p \in Goroutines : gor[p].pc = "done"
RespondedGoroutines == {p \in Goroutines : ~gor[p].ex.fail}

\* C9: once the concurrent calls of do have all returned, the snapshot is
\* the whole rate triple one of them observed (the last writer's), never a
\* triple whose limit, remaining and reset come from different exchanges.
C9_SnapshotIsOneObservedTriple ==
    (AllReturned /\ RespondedGoroutines # {})
    => \E p \in RespondedGoroutines : rate = gor[p].res.Rate

\* Two calls that observed triples differing in every field have returned,
\* and the snapshot is the first call's.
C9_Witness ==
    /\ AllReturned
    /\ RespondedGoroutines = Goroutines
    /\ gor[1].res.Rate.Limit # gor[2].res.Rate.Limit
    /\ gor[1].res.Rate.Remaining # gor[2].res.Rate.Remaining
    /\ gor[1].res.Rate.Reset # gor[2].res.Rate.Reset
    /\ rate = gor[1].res.Rate

(***************************************************************************)
(* Properties of the webhook codec (specification SpecHook)                *)
(***************************************************************************)

Decoded == hookRet # NoHookReturn

Discriminators == {TypeLiteral(v) : v \in Variants}

\* The discriminator table of the codec's contract.
TableVariant(d) == CHOOSE v \in Variants : TypeLiteral(v) = d

\* C1: for each of the nine variants and every field assignment, decoding
\* what the variant's MarshalJSON wrote succeeds and gives a webhook of the
\* same variant with the same field values.
C1_RoundTrip ==
    (Decoded /\ hookIn # NoHook)
    => /\ hookRet.outcome = "ok"
       /\ wu.Webhook = hookIn

\* C2: given a JSON object whose type is one of the nine discriminators d,
\* UnmarshalJSON leaves in wu a webhook of the variant the table maps d to,
\* and wu.Type = d.
C2_DecodesTableVariant ==
    (Decoded /\ wire.kind = "object" /\ TypeOf(wire) \in Discriminators)
    => /\ hookRet.outcome = "ok"
       /\ wu.Webhook.variant = TableVariant(TypeOf(wire))
       /\ wu.Type = TypeOf(wire)

\* C3: given a JSON object whose type is absent or is none of the nine
\* discriminators, UnmarshalJSON returns the unrecognized-type error (not a
\* JSON parse error), and never succeeds with wu.Webhook unset or defaulted.
C3_UnknownTypeIsAnError ==
    (Decoded /\ wire.kind = "object" /\ TypeOf(wire) \notin Discriminators)
    => /\ hookRet.outcome = "error"
       /\ hookRet.err = "unrecognized webhook type"
       /\ wu.Webhook = NoHook

=============================================================================
